---- MODULE Spec2Model ----
(***************************************************************************)
(* Load-time behaviour of appGUI/preferences/__init__.py (FlatCAM):        *)
(*                                                                         *)
(*    8  fcTranslate.apply_language('strings')                             *)
(*    9  if '_' not in builtins.__dict__:                                  *)
(*   10      _ = gettext.gettext                                           *)
(*   12  settings = QSettings("Open Source", "FlatCAM")                    *)
(*   13  if settings.contains("machinist"):                                *)
(*   14      machinist_setting = settings.value('machinist', type=int)     *)
(*   15  else:                                                             *)
(*   16      machinist_setting = 0                                         *)
(*                                                                         *)
(* Two namespaces are modelled, as Python resolves a module-level name:    *)
(* the module's own globals (where the assignments of lines 10, 12, 14, 16 *)
(* land) and the process-wide builtins (which line 9 tests).               *)
(***************************************************************************)
EXTENDS Integers, Sequences, FiniteSets, TLC

VARIABLES
    pc,              \* position in the module body, "done" / "raised" after it
    loads,           \* number of loads of the module started so far
    builtins,        \* builtins.__dict__, restricted to the name "_"
    modGlobals,      \* the module's namespace: "_", "settings", "machinist_setting"
    defaultCatalog,  \* catalog of gettext's default text domain (environment)
    store,           \* content of the ("Open Source", "FlatCAM") settings store
    storeFile,       \* whether the store exists on the platform storage
    exc,             \* exception that ended the current load, "none" if none
    trace,           \* what the current load executed, in order
    loadStore,       \* store content when the current load started
    wroteSince,      \* the store was written externally since the last load ended
    prev,            \* how the previous load ended
    loadKind         \* "import": the body runs in a new namespace; "reload": in the kept one

vars == <<pc, loads, builtins, modGlobals, defaultCatalog, store, storeFile,
          exc, trace, loadStore, wroteSince, prev, loadKind>>

----------------------------------------------------------------------------
(* Bounds of the model *)

MaxLoads == 2
MaxStrLen == 2

----------------------------------------------------------------------------
(* Namespaces *)

Empty == <<>>

Bound(ns, name) == name \in DOMAIN ns

Bind(ns, name, val) == [k \in (DOMAIN ns) \cup {name} |-> IF k = name THEN val ELSE ns[k]]

Unbind(ns, name) == [k \in (DOMAIN ns) \ {name} |-> ns[k]]

\* A module-level name is looked up in the module's globals, then in builtins.
Resolvable(g, b, name) == Bound(g, name) \/ Bound(b, name)

Resolve(g, b, name) == IF Bound(g, name) THEN g[name] ELSE b[name]

----------------------------------------------------------------------------
(* Translators *)

Msgs == {"", "File", "Machinist"}

\* The catalog named "strings" that apply_language activates when it finds one.
StringsCatalog ==
    [m \in {"", "File", "Machinist"} |->
        CASE m = "" -> "Project-Id-Version: strings"
          [] m = "File" -> "Fichier"
          [] m = "Machinist" -> "Machiniste"]

\* Catalogs the default text domain ("messages") may have in the environment.
DefaultCatalogs == {Empty, [m \in {"File"} |-> "Datei"]}

GetText == "gettext.gettext"
StringsGetText == "strings.gettext"
OtherGetText == "other.gettext"

\* An object that is not callable, such as the last result the interactive
\* interpreter keeps in builtins under "_".
LastResult == "last result"

Translators == {GetText, StringsGetText, OtherGetText}

\* Calling anything else raises TypeError.
Callable(x) == x \in Translators

Lookup(catalog, msg) == IF msg \in DOMAIN catalog THEN catalog[msg] ELSE msg

\* Calling a translator with one string (defined for callables).
Call(tr, cat, msg) ==
    CASE tr = GetText -> Lookup(cat, msg)
      [] tr = StringsGetText -> Lookup(StringsCatalog, msg)
      [] tr = OtherGetText -> IF msg = "File" THEN "Archivo" ELSE msg

Strings == Msgs \cup {"Project-Id-Version: strings", "Fichier", "Machiniste",
                      "Datei", "Archivo"}

----------------------------------------------------------------------------
(* Stored values and settings.value(key, type=int) *)

\* Characters of the generated texts; "true" is what a bool written to an INI
\* file reads back as.
Chars == {"0", "1", "-"}

TrueText == <<"t", "r", "u", "e">>

RECURSIVE StrsOfLen(_)
StrsOfLen(n) ==
    IF n = 0 THEN {<<>>}
    ELSE {Append(s, c) : s \in StrsOfLen(n - 1), c \in Chars}

Strs == UNION {StrsOfLen(n) : n \in 0..MaxStrLen}

\* Stored values: an int, a bool, a float (in tenths), a text, a list of
\* one-character texts (what an INI line "machinist=1, 0" reads back as).
QInt(i) == [t |-> "int", i |-> i, s |-> <<>>]
QBool(b) == [t |-> "bool", i |-> IF b THEN 1 ELSE 0, s |-> <<>>]
QFloat(tenths) == [t |-> "float", i |-> tenths, s |-> <<>>]
QStr(s) == [t |-> "str", i |-> 0, s |-> s]
QStrList(es) == [t |-> "strlist", i |-> 0, s |-> es]

QVals == {QInt(i) : i \in {-1, 0, 1, 2}} \cup {QBool(b) : b \in BOOLEAN}
            \cup {QFloat(x) : x \in {-14, 14, 16}}
            \cup {QStr(s) : s \in Strs \cup {TrueText}}
            \cup {QStrList(es) : es \in {<<"1", "0">>, <<"1", "-">>}}

\* Python values machinist_setting can be bound to.
PyInt(n) == [py |-> "int", n |-> n, items |-> <<>>]
PyList(ns) == [py |-> "list", n |-> 0, items |-> ns]

IsDigit(c) == c \in {"0", "1", "2", "3", "4", "5", "6", "7", "8", "9"}

DigitVal(c) ==
    CASE c = "0" -> 0 [] c = "1" -> 1 [] c = "2" -> 2 [] c = "3" -> 3
      [] c = "4" -> 4 [] c = "5" -> 5 [] c = "6" -> 6 [] c = "7" -> 7
      [] c = "8" -> 8 [] c = "9" -> 9

AllDigits(s) == \A k \in 1..Len(s) : IsDigit(s[k])

RECURSIVE DigitsVal(_)
DigitsVal(s) ==
    IF s = <<>> THEN 0
    ELSE 10 * DigitsVal(SubSeq(s, 1, Len(s) - 1)) + DigitVal(s[Len(s)])

\* Base-10 text to integer: an optional sign, then at least one digit.
ParseInt(s) ==
    LET neg == s # <<>> /\ s[1] = "-"
        digits == IF neg THEN Tail(s) ELSE s
    IN  IF digits # <<>> /\ AllDigits(digits)
        THEN [ok |-> TRUE, val |-> IF neg THEN 0 - DigitsVal(digits) ELSE DigitsVal(digits)]
        ELSE [ok |-> FALSE, val |-> 0]

\* A float, given in tenths, to the nearest integer.
RoundTenths(x) == (x + 5) \div 10

\* What value(key, type=int) makes of a stored value. This is the library's
\* conversion, not code of the module: a scalar is converted to int, and a
\* conversion that fails is reported as TypeError (ok = FALSE); for a list
\* the type is applied to the elements and a list comes back.
ToInt(v) ==
    CASE v.t = "int" -> [ok |-> TRUE, val |-> PyInt(v.i)]
      [] v.t = "bool" -> [ok |-> TRUE, val |-> PyInt(IF v.i # 0 THEN 1 ELSE 0)]
      [] v.t = "float" -> [ok |-> TRUE, val |-> PyInt(RoundTenths(v.i))]
      [] v.t = "str" -> [ok |-> ParseInt(v.s).ok, val |-> PyInt(ParseInt(v.s).val)]
      [] v.t = "strlist" ->
           [ok |-> \A k \in 1..Len(v.s) : ParseInt(<<v.s[k]>>).ok,
            val |-> PyList([k \in 1..Len(v.s) |-> ParseInt(<<v.s[k]>>).val])]

----------------------------------------------------------------------------
(* The module body, statement by statement *)

\* Line 8, apply_language('strings'): when a catalog is found for the locale
\* it is activated process-wide (its gettext becomes builtins' "_"); when
\* none is found nothing changes and nothing is raised.
ApplyLanguageBuiltins(b, found) ==
    IF found THEN Bind(b, "_", StringsGetText) ELSE b

\* Line 9: '_' not in builtins.__dict__
GuardCond_Always(b) == TRUE

GuardCond(b) == ~Bound(b, "_")

\* Line 10: _ = gettext.gettext, an assignment at module level.
GuardBind_Strings(g) == Bind(g, "_", StringsGetText)

GuardBind(g) == Bind(g, "_", GetText)

\* Lines 9-10 on the module's namespace.
Guard(g, b) == IF GuardCond(b) THEN GuardBind(g) ELSE g

\* Line 12: QSettings("Open Source", "FlatCAM") opens the store of that
\* pair; constructing it writes nothing.
SettingsHandle == [organization |-> "Open Source", application |-> "FlatCAM"]

StoreAfterOpen(st) == st

\* Line 13: settings.contains("machinist")
ContainsMachinist(st) == Bound(st, "machinist")

\* Line 14: settings.value('machinist', type=int); called on a stored key.
\* For a key that is not stored, value() gets the invalid default and the
\* requested type's zero comes back.
ValueInt(st) ==
    IF Bound(st, "machinist")
    THEN ToInt(st["machinist"])
    ELSE [ok |-> TRUE, val |-> PyInt(0)]

\* Line 16
DefaultSetting == 0

\* Lines 13-16: what the branch does. A failed conversion raises TypeError
\* out of line 14, before the assignment.
ReadResult_NoContains(st) ==
    IF Bound(st, "machinist") /\ ToInt(st["machinist"]).ok
    THEN [exc |-> "none", assign |-> TRUE, val |-> ToInt(st["machinist"]).val,
          ev |-> <<"value", "assign_then">>]
    ELSE [exc |-> "TypeError", assign |-> FALSE, val |-> PyInt(0), ev |-> <<"value">>]

ReadResult(st) ==
    IF ContainsMachinist(st)
    THEN IF ValueInt(st).ok
         THEN [exc |-> "none", assign |-> TRUE, val |-> ValueInt(st).val,
               ev |-> <<"contains", "value", "assign_then">>]
         ELSE [exc |-> "TypeError", assign |-> FALSE, val |-> PyInt(0),
               ev |-> <<"contains", "value">>]
    ELSE [exc |-> "none", assign |-> TRUE, val |-> PyInt(DefaultSetting),
          ev |-> <<"contains", "assign_else">>]

\* The store after lines 12-16: no setValue, remove or clear is called.
StoreAfterRead_Clear(st) == Empty

StoreAfterRead_WriteBack(st) ==
    IF Bound(st, "machinist") THEN st ELSE Bind(st, "machinist", QInt(0))

StoreAfterRead(st) == st

\* Order of the statements of the module body.
StepAfter_SettingsFirst(p) ==
    CASE p = "apply" -> "open"
      [] p = "open" -> "guard"
      [] p = "guard" -> "read"
      [] p = "read" -> "done"

StepAfter_Repeat(p) ==
    CASE p = "apply" -> "guard"
      [] p = "guard" -> "open"
      [] p = "open" -> "read"
      [] p = "read" -> "read"

StepAfter(p) ==
    CASE p = "apply" -> "guard"
      [] p = "guard" -> "open"
      [] p = "open" -> "read"
      [] p = "read" -> "done"

----------------------------------------------------------------------------
(* State machine *)

Finished == pc \in {"done", "raised"}

OtherData == {Empty, [k \in {"language"} |-> QStr(<<"e", "n">>)]}

StoreContents ==
    OtherData \cup {Bind(o, "machinist", v) : o \in OtherData, v \in QVals}

\* Line 9 accepts whatever is bound to "_": a translator or any other object.
InitBuiltins ==
    {Empty} \cup {[k \in {"_"} |-> t] : t \in {StringsGetText, OtherGetText, LastResult}}

\* valid, clean, exc, bound, ms: whether a load came before, whether the
\* store was left alone since it ended, and how it ended; had, old: the
\* binding of machinist_setting in the namespace the current load started with.
NoPrev ==
    [valid |-> FALSE, clean |-> FALSE, exc |-> "none", bound |-> FALSE, ms |-> PyInt(0),
     had |-> FALSE, old |-> PyInt(0)]

Init ==
    /\ pc = "apply"
    /\ loads = 1
    /\ builtins \in InitBuiltins
    /\ modGlobals = Empty
    /\ defaultCatalog \in DefaultCatalogs
    /\ storeFile \in BOOLEAN
    /\ store \in (IF storeFile THEN StoreContents ELSE {Empty})
    /\ exc = "none"
    /\ trace = <<>>
    /\ loadStore = store
    /\ wroteSince = FALSE
    /\ prev = NoPrev
    /\ loadKind = "import"

\* Line 8
ApplyLanguage ==
    /\ pc = "apply"
    /\ \E found \in BOOLEAN : builtins' = ApplyLanguageBuiltins(builtins, found)
    /\ trace' = Append(trace, "apply_language")
    /\ pc' = StepAfter(pc)
    /\ UNCHANGED <<loadKind, loads, modGlobals, defaultCatalog, store, storeFile, exc,
                   loadStore, wroteSince, prev>>

\* Lines 9-10
GuardStep ==
    /\ pc = "guard"
    /\ modGlobals' = Guard(modGlobals, builtins)
    /\ trace' = trace \o (IF GuardCond(builtins) THEN <<"guard", "bind">> ELSE <<"guard">>)
    /\ pc' = StepAfter(pc)
    /\ UNCHANGED <<loadKind, loads, builtins, defaultCatalog, store, storeFile, exc,
                   loadStore, wroteSince, prev>>

\* Line 12
OpenSettings ==
    /\ pc = "open"
    /\ modGlobals' = Bind(modGlobals, "settings", SettingsHandle)
    /\ store' = StoreAfterOpen(store)
    /\ trace' = Append(trace, "open")
    /\ pc' = StepAfter(pc)
    /\ UNCHANGED <<loadKind, loads, builtins, defaultCatalog, storeFile, exc,
                   loadStore, wroteSince, prev>>

\* Lines 13-16
ReadMachinist ==
    /\ pc = "read"
    /\ LET r == ReadResult(store)
       IN  /\ exc' = r.exc
           /\ modGlobals' = IF r.assign
                            THEN Bind(modGlobals, "machinist_setting", r.val)
                            ELSE modGlobals
           /\ trace' = trace \o r.ev
           /\ pc' = IF r.exc = "none" THEN StepAfter(pc) ELSE "raised"
    /\ store' = StoreAfterRead(store)
    /\ UNCHANGED <<loadKind, loads, builtins, defaultCatalog, storeFile, loadStore,
                   wroteSince, prev>>

Outcome ==
    LET b == Bound(modGlobals, "machinist_setting")
        v == IF b THEN modGlobals["machinist_setting"] ELSE PyInt(0)
    IN  [valid |-> TRUE, clean |-> ~wroteSince, exc |-> exc, bound |-> b, ms |-> v,
         had |-> b, old |-> v]

\* The import system keeps the module in sys.modules while its body runs and
\* afterwards, except that an import whose body raised is taken out again; a
\* reload whose body raised leaves the module where it was.
InSysModules == pc # "raised" \/ loadKind = "reload"

\* The module body runs again in the same process (importlib.reload): the
\* module's namespace and builtins are kept. A module that is not in
\* sys.modules cannot be reloaded.
Reload ==
    /\ Finished
    /\ InSysModules
    /\ loads < MaxLoads
    /\ loads' = loads + 1
    /\ pc' = "apply"
    /\ exc' = "none"
    /\ trace' = <<>>
    /\ loadStore' = store
    /\ prev' = Outcome
    /\ wroteSince' = FALSE
    /\ loadKind' = "reload"
    /\ UNCHANGED <<builtins, modGlobals, defaultCatalog, store, storeFile>>

\* After an import whose body raised, the same process imports the module
\* again: the body runs in a new, empty namespace; builtins are kept.
Reimport ==
    /\ Finished
    /\ ~InSysModules
    /\ loads < MaxLoads
    /\ loads' = loads + 1
    /\ pc' = "apply"
    /\ exc' = "none"
    /\ trace' = <<>>
    /\ loadStore' = store
    /\ prev' = [Outcome EXCEPT !.had = FALSE, !.old = PyInt(0)]
    /\ wroteSince' = FALSE
    /\ loadKind' = "import"
    /\ modGlobals' = Empty
    /\ UNCHANGED <<builtins, defaultCatalog, store, storeFile>>

\* The module is imported by a new process: empty module namespace, the
\* builtins of that process and the default-domain catalog its environment
\* (LANGUAGE, LC_ALL, LC_MESSAGES, LANG, installed catalogs) selects; the
\* persisted store is what it was.
Restart ==
    /\ Finished
    /\ loads < MaxLoads
    /\ loads' = loads + 1
    /\ pc' = "apply"
    /\ exc' = "none"
    /\ trace' = <<>>
    /\ loadStore' = store
    /\ prev' = [Outcome EXCEPT !.had = FALSE, !.old = PyInt(0)]
    /\ wroteSince' = FALSE
    /\ loadKind' = "import"
    /\ modGlobals' = Empty
    /\ builtins' \in InitBuiltins
    /\ defaultCatalog' \in DefaultCatalogs
    /\ UNCHANGED <<store, storeFile>>

\* Some other part of the application (or the user) writes or removes the
\* key between loads. Any number of writes of one key leaves what a single
\* write can leave, so one write between two loads is modelled.
ExternalWrite ==
    /\ Finished
    /\ ~wroteSince
    /\ \/ \E v \in QVals : store' = Bind(store, "machinist", v)
       \/ store' = Unbind(store, "machinist")
    /\ store' # store
    /\ storeFile' = TRUE
    /\ wroteSince' = TRUE
    /\ UNCHANGED <<loadKind, pc, loads, builtins, modGlobals, defaultCatalog, exc, trace,
                   loadStore, prev>>

Next ==
    \/ ApplyLanguage
    \/ GuardStep
    \/ OpenSettings
    \/ ReadMachinist
    \/ Reload
    \/ Reimport
    \/ Restart
    \/ ExternalWrite

Spec == Init /\ [][Next]_vars

----------------------------------------------------------------------------
(* Vocabulary of the properties *)

Has(e) == \E k \in 1..Len(trace) : trace[k] = e

Count(tr, e) == Cardinality({k \in 1..Len(tr) : tr[k] = e})

IsStep(e) == e \in {"apply_language", "guard", "open", "contains"}

StepsOf(tr) == SelectSeq(tr, IsStep)

Canonical == <<"apply_language", "guard", "open", "contains">>

IsPrefix(s, t) == Len(s) <= Len(t) /\ s = SubSeq(t, 1, Len(s))

MSBound == Bound(modGlobals, "machinist_setting")

MS == modGlobals["machinist_setting"]

\* The binding of machinist_setting in a namespace, comparable when absent.
MSOf(g) ==
    IF Bound(g, "machinist_setting") THEN <<TRUE, g["machinist_setting"]>>
    ELSE <<FALSE, PyInt(0)>>

Assigns(tr) == Count(tr, "assign_then") + Count(tr, "assign_else")

\* What a store content holds for "machinist", as an integer.
Expected(st) ==
    IF Bound(st, "machinist") THEN ToInt(st["machinist"])
    ELSE [ok |-> TRUE, val |-> PyInt(0)]

BootstrapDone == pc \in {"open", "read", "done", "raised"}

Translator == Resolve(modGlobals, builtins, "_")

----------------------------------------------------------------------------
(* Properties *)

\* C1: once apply_language('strings') and the guard have run, a translator
\* is there under the name "_" (read at its weakest: the name resolves in
\* the module, through the module's globals or builtins), it can be called
\* with a string and returns a string, whether or not a catalog was found.
C1_Original ==
    BootstrapDone =>
        /\ Resolvable(modGlobals, builtins, "_")
        /\ Callable(Translator)
        /\ \A m \in Msgs : Call(Translator, defaultCatalog, m) \in Strings

\* C2: a run of the guard never changes builtins; with a translator
\* registered there it changes nothing at all, so the name resolves to the
\* same function as before; with none registered it leaves "_" bound to
\* gettext.gettext, and a second such run changes nothing.
C2_GuardIdempotent ==
    [][(pc = "guard" /\ pc' # "guard") =>
        /\ builtins' = builtins
        /\ Bound(builtins, "_") =>
             /\ modGlobals' = modGlobals
             /\ Resolve(modGlobals', builtins', "_") = Resolve(modGlobals, builtins, "_")
        /\ ~Bound(builtins, "_") =>
             /\ Bound(modGlobals', "_")
             /\ modGlobals'["_"] = GetText
             /\ Bound(modGlobals, "_") => modGlobals' = modGlobals]_vars

C2_Witness ==
    /\ loads = 2
    /\ pc = "open"
    /\ ~Has("bind")
    /\ Bound(builtins, "_")
    /\ Bound(modGlobals, "_")
    /\ modGlobals["_"] = GetText

\* C3 as stated: when the guard binds, the translator is registered in the
\* process-wide namespace (builtins) and returns every string unchanged.
C3_Original ==
    Has("bind") =>
        /\ Bound(builtins, "_")
        /\ \A m \in Msgs : Call(builtins["_"], defaultCatalog, m) = m

\* C3 amended: when the guard binds, "_" is bound in the module's own
\* namespace to gettext.gettext and builtins stays without the name; the
\* function looks a string up in the default text domain and returns it
\* unchanged when that domain has no entry for it.
C3_GuardBindsModuleName ==
    Has("bind") =>
        /\ ~Bound(builtins, "_")
        /\ Bound(modGlobals, "_")
        /\ modGlobals["_"] = GetText
        /\ Translator = GetText
        /\ \A m \in Msgs :
             /\ Call(Translator, defaultCatalog, m) = Lookup(defaultCatalog, m)
             /\ m \notin DOMAIN defaultCatalog => Call(Translator, defaultCatalog, m) = m

C3_Witness ==
    /\ pc = "done"
    /\ Has("bind")
    /\ defaultCatalog = Empty
    /\ \A m \in Msgs : Call(Translator, defaultCatalog, m) = m

\* C4: after a load that ran to its end, for every store content,
\* machinist_setting is the stored value of "machinist" as an integer when
\* the key is stored, and 0 when it is not.
C4_Original ==
    pc = "done" =>
        /\ MSBound
        /\ MS["py"] = "int"
        /\ MS = Expected(loadStore).val

\* What the load does with each kind of content (not a claim of the
\* specification): an absent key gives 0, a scalar that converts gives its
\* integer, a list gives a list, and a failed conversion ends the load with
\* TypeError and leaves machinist_setting as it was before the load.
LoadOutcome ==
    Finished =>
        /\ Expected(loadStore).ok =>
             /\ pc = "done"
             /\ exc = "none"
             /\ MSBound
             /\ MS = Expected(loadStore).val
        /\ ~Expected(loadStore).ok =>
             /\ pc = "raised"
             /\ exc = "TypeError"
             /\ MSOf(modGlobals) = <<prev.had, prev.old>>
        /\ (pc = "done" /\ MS["py"] # "int") =>
             (Bound(loadStore, "machinist") /\ loadStore["machinist"]["t"] = "strlist")

\* C5: a load that finds no "machinist" key, also when no store exists,
\* opens the settings, raises nothing and ends with machinist_setting = 0.
C5_MissingKeyDefault ==
    /\ pc \in {"read", "done", "raised"} =>
         /\ Bound(modGlobals, "settings")
         /\ modGlobals["settings"] = SettingsHandle
    /\ (Finished /\ ~Bound(loadStore, "machinist")) =>
         /\ pc = "done"
         /\ exc = "none"
         /\ MSBound
         /\ MS = PyInt(0)

C5_Witness ==
    /\ loads = 1
    /\ pc = "done"
    /\ ~storeFile
    /\ store = Empty
    /\ MS = PyInt(0)

\* C6: from the start of a load to its end, and until someone else writes,
\* the store content is what it was when the load started; an absent
\* "machinist" stays absent.
C6_StoreUnchanged ==
    ~wroteSince =>
        /\ store = loadStore
        /\ ~Bound(loadStore, "machinist") => ~Bound(store, "machinist")

C6_Witness ==
    /\ pc = "done"
    /\ ~wroteSince
    /\ ~Bound(store, "machinist")
    /\ Bound(store, "language")
    /\ MS = PyInt(0)

\* C7: a load that follows another with no external write in between ends
\* the same way: the same exception state and, when it completes, the same
\* machinist_setting; every load opens the store once, with the same pair.
C7_SameDataAcrossLoads ==
    Finished =>
        /\ Count(trace, "open") = 1
        /\ modGlobals["settings"] = SettingsHandle
        /\ (prev.valid /\ prev.clean) =>
             /\ exc = prev.exc
             /\ exc = "none" => (prev.bound /\ MS = prev.ms)

C7_Witness ==
    /\ loads = 2
    /\ pc = "done"
    /\ prev.valid
    /\ prev.clean
    /\ Bound(loadStore, "machinist")
    /\ loadStore["machinist"] = QStr(<<"1">>)
    /\ MS = PyInt(1)
    /\ prev.ms = PyInt(1)

\* C8: within a load the steps run in the order apply_language, guard,
\* open, read, each once, and a load that ended ran all four, whether the
\* guard bound a translator or not.
C8_StepOrder ==
    /\ IsPrefix(StepsOf(trace), Canonical)
    /\ pc = "apply" => StepsOf(trace) = <<>>
    /\ pc = "guard" => StepsOf(trace) = SubSeq(Canonical, 1, 1)
    /\ pc = "open" => StepsOf(trace) = SubSeq(Canonical, 1, 2)
    /\ pc = "read" => StepsOf(trace) = SubSeq(Canonical, 1, 3)
    /\ Finished => StepsOf(trace) = Canonical

C8_Witness ==
    /\ pc = "done"
    /\ ~Has("bind")
    /\ StepsOf(trace) = Canonical

\* C9: in one load "_" is assigned at most once and machinist_setting at
\* most once; the binding of machinist_setting changes only in the read step
\* or when a load starts in a new process, and a write to the store leaves
\* it as it is.
C9_WrittenOncePerLoad ==
    [][/\ Count(trace', "bind") <= 1
       /\ Assigns(trace') <= 1
       /\ MSOf(modGlobals') # MSOf(modGlobals) =>
            \/ pc = "read"
            \/ (Finished /\ pc' = "apply" /\ modGlobals' = Empty)
       /\ (Bound(modGlobals', "_") /\ ~Bound(modGlobals, "_")) => pc = "guard"
       /\ store' # store => MSOf(modGlobals') = MSOf(modGlobals)]_vars

C9_Witness ==
    /\ pc = "done"
    /\ wroteSince
    /\ MSBound
    /\ Expected(store).ok
    /\ Expected(store).val # MS

\* C10: a load that ran to its end assigned machinist_setting in exactly one
\* of the two branches, so it is bound to an integer; value() was called
\* only when contains() was true.
C10_Original ==
    pc = "done" =>
        /\ Assigns(trace) = 1
        /\ MSBound
        /\ MS["py"] = "int"
        /\ Has("value") => Bound(loadStore, "machinist")

====
